---- MODULE Spec2Model ----
(***************************************************************************)
(* Three UI components of the editor:                                      *)
(*   ViewList        packages/dataviews/src/view-list.js                   *)
(*   ListViewSidebar packages/edit-post/.../list-view-sidebar.js           *)
(*   PostEditForm    packages/edit-site/src/components/post-edit/index.js  *)
(* Each component has its own specification; the variables of the other    *)
(* components stay at their initial value.                                 *)
(***************************************************************************)
EXTENDS Integers, Sequences, FiniteSets, TLC

VARIABLES
    \* ---- ViewList: props
    data,              \* prop `data`
    fields,            \* prop `fields` (the descriptors are shared, mutable objects)
    view,              \* prop `view`
    getItemId,         \* prop `getItemId`: "absent", or the property it reads
    selection,         \* prop `selection`
    deferredRendering, \* prop `deferredRendering`
    \* ---- ViewList: hook state and output
    shownData,         \* state of useAsyncList
    asyncTicks,        \* batches the async list has appended since it (re)started
    status,            \* "pending" (not rendered yet), "ok", "fault" (render threw)
    rows,              \* the <li> rows of the last completed render pass
    calls,             \* invocations of onSelectionChange made by the last step
    lastEvent,         \* the last step: its kind, and the row item / key code of an event
    \* ---- ListViewSidebar
    isListViewOpened,  \* edit-post store flag; the sidebar is mounted iff TRUE
    listViewToggleElement, \* prop: TRUE when the toggle button element is set
    tab,               \* useState( 'list-view' )
    hasBlocks,         \* the list view renders a tabbable element
    activeElement,     \* ownerDocument.activeElement
    sbLast,            \* the last sidebar step and where focus was before it
    \* ---- PostEditForm
    postId,            \* prop `postId`, a string (sequence of characters)
    ids,               \* postId.split( ',' )
    form,              \* form.fields of the last render
    record,            \* the edited entity record (single edit), or null
    multiEdits,        \* useState( {} )
    storeEdits,        \* the calls of editEntityRecord made by the last onChange
    peStatus           \* "pending", "empty" (no postId), "ok", "threw" (onChange threw)

viewVars == <<data, fields, view, getItemId, selection, deferredRendering,
              shownData, asyncTicks, status, rows, calls, lastEvent>>
sidebarVars == <<isListViewOpened, listViewToggleElement, tab, hasBlocks,
                 activeElement, sbLast>>
postEditVars == <<postId, ids, form, record, multiEdits, storeEdits, peStatus>>
vars == <<viewVars, sidebarVars, postEditVars>>

(***************************************************************************)
(* Bounds of the model.                                                    *)
(***************************************************************************)
MaxItems == 7
MaxFields == 4
MaxFormats == 2
MaxPostIds == 2

Min(a, b) == IF a < b THEN a ELSE b

Reverse(s) == [i \in 1..Len(s) |-> s[Len(s) + 1 - i]]

SeqsUpTo(S, n) == UNION {[1..k -> S] : k \in 0..n}

Range(s) == {s[i] : i \in 1..Len(s)}

(***************************************************************************)
(*                               ViewList                                  *)
(***************************************************************************)
ENTER == 13
SPACE == 32
ESCAPE == 27
KeyCodes == {ENTER, SPACE, ESCAPE}

Undefined == "undefined"

\* An item: `id`, and a second property a custom getItemId may read.
Item(i) == [id |-> i, key |-> i + MaxItems]
NoItem == [id |-> 0, key |-> 0]
Items(n) == [i \in 1..n |-> Item(i)]
DataInputs == {Items(n) : n \in 0..MaxItems}
Identifiers == 1..(2 * MaxItems)

FieldNames == <<"title", "image", "author", "date", "slug">>
FormatTypes == {"link", "bold", "italic"}
Format(t) == [type |-> t]
Field(id, has, fmts) == [id |-> id, hasFormats |-> has, formats |-> fmts]

StepOfTwo == 1 + 1

\* useAsyncList( data, { step: 3 } )
Step == 3

UseAsyncListStart(list, step) == SubSeq(list, 1, Min(step, Len(list)))

UseAsyncListNext(current, list, step) ==
    SubSeq(list, 1, Min(Len(current) + step, Len(list)))

\* fields.find( ( field ) => field.id === id ): the index found, 0 for undefined
Find(fs, id) ==
    IF \E i \in 1..Len(fs) : fs[i].id = id
    THEN CHOOSE i \in 1..Len(fs) :
             fs[i].id = id /\ \A j \in 1..(i - 1) : fs[j].id # id
    ELSE 0

\* primaryField.formats.filter( ... ) throws a TypeError when primaryField is
\* undefined, or when its formats is.
RenderThrows(fs, v) ==
    LET p == Find(fs, v.layout.primaryField)
    IN  p = 0 \/ ~fs[p].hasFormats

NotLink(format) == format.type # "link"

StripLinks(formats) == SelectSeq(formats, NotLink)

NormalizedFieldsAll(fs, v) ==
    [i \in 1..Len(fs) |-> [fs[i] EXCEPT !.formats = StripLinks(@)]]

\* primaryField.formats = primaryField.formats.filter( ... ), in place
NormalizedFields(fs, v) ==
    LET p == Find(fs, v.layout.primaryField)
    IN  [fs EXCEPT ![p].formats = StripLinks(@)]

IsVisibleFieldKeepingMedia(field, v) ==
    /\ field.id \notin v.hiddenFields
    /\ field.id # v.layout.primaryField

IsVisibleField(field, v) ==
    /\ field.id \notin v.hiddenFields
    /\ field.id \notin {v.layout.primaryField, v.layout.mediaField}

VisibleFields(fs, v) ==
    LET Keep(field) == IsVisibleField(field, v) IN SelectSeq(fs, Keep)

FieldIdsOf(fs) == [i \in 1..Len(fs) |-> fs[i].id]

\* getItemId?.( item )
GetItemId(gid, item) ==
    CASE gid = "id" -> item.id
      [] gid = "key" -> item.key
      [] OTHER -> 0

\* key={ getItemId?.( item ) || index }
RowKey(gid, item, index) ==
    IF gid # "absent" /\ GetItemId(gid, item) # 0 THEN GetItemId(gid, item) ELSE index

\* aria-pressed / the selected class: selection.includes( item.id )
IsPressed(sel, gid, item) == item.id \in sel

IsSelectedClass(sel, gid, item) == item.id \in sel

Row(item, index, fs, v, sel, gid) ==
    [item     |-> item,
     key      |-> RowKey(gid, item, index),
     pressed  |-> IsPressed(sel, gid, item),
     selected |-> IsSelectedClass(sel, gid, item),
     media    |-> IF Find(fs, v.layout.mediaField) # 0
                  THEN fs[Find(fs, v.layout.mediaField)].id ELSE "placeholder",
     primary  |-> IF Find(fs, v.layout.primaryField) # 0
                  THEN fs[Find(fs, v.layout.primaryField)].id ELSE "",
     visible  |-> FieldIdsOf(VisibleFields(fs, v))]

UsedData(deferred, shown, d) == IF deferred THEN shown ELSE d

\* One call of the function ViewList with the given props and hook state.
RenderPass(d, shown, sel) ==
    IF RenderThrows(fields, view)
    THEN /\ status' = "fault"
         /\ fields' = fields
         /\ rows' = <<>>
    ELSE /\ status' = "ok"
         /\ fields' = NormalizedFields(fields, view)
         /\ rows' = LET used == UsedData(deferredRendering, shown, d)
                    IN  [i \in 1..Len(used) |->
                            Row(used[i], i - 1, NormalizedFields(fields, view),
                                view, sel, getItemId)]

Event(type, item, keyCode) == [type |-> type, item |-> item, keyCode |-> keyCode]

OnClickAdditive(item) ==
    LET shown == [i \in 1..Len(rows) |-> rows[i].item]
        Selected(it) == it.id \in selection /\ it # item
    IN  << SelectSeq(shown, Selected) \o <<item>> >>

\* onClick={ () => onSelectionChange( [ item ] ) }
OnClick(item) == << <<item>> >>

OnEnterOnlyEnter(item, keyCode) ==
    IF keyCode = ENTER THEN << <<item>> >> ELSE <<>>

\* onEnter( item )( event )
OnEnter(item, keyCode) ==
    IF keyCode \in {ENTER, SPACE} THEN << <<item>> >> ELSE <<>>

Mount ==
    /\ status = "pending"
    /\ shownData' = UseAsyncListStart(data, Step)
    /\ asyncTicks' = 0
    /\ RenderPass(data, shownData', selection)
    /\ calls' = <<>>
    /\ lastEvent' = Event("mount", NoItem, 0)
    /\ UNCHANGED <<data, view, getItemId, selection, deferredRendering>>
    /\ UNCHANGED <<sidebarVars, postEditVars>>

Rerender ==
    /\ status = "ok"
    /\ RenderPass(data, shownData, selection)
    /\ calls' = <<>>
    /\ lastEvent' = Event("rerender", NoItem, 0)
    /\ UNCHANGED <<data, view, getItemId, selection, deferredRendering,
                   shownData, asyncTicks>>
    /\ UNCHANGED <<sidebarVars, postEditVars>>

Tick ==
    /\ status = "ok"
    /\ Len(shownData) < Len(data)
    /\ shownData' = UseAsyncListNext(shownData, data, Step)
    /\ asyncTicks' = asyncTicks + 1
    /\ RenderPass(data, shownData', selection)
    /\ calls' = <<>>
    /\ lastEvent' = Event("tick", NoItem, 0)
    /\ UNCHANGED <<data, view, getItemId, selection, deferredRendering>>
    /\ UNCHANGED <<sidebarVars, postEditVars>>

Click(i) ==
    /\ status = "ok"
    /\ i \in 1..Len(rows)
    /\ calls' = OnClick(rows[i].item)
    /\ lastEvent' = Event("click", rows[i].item, 0)
    /\ UNCHANGED <<data, fields, view, getItemId, selection, deferredRendering,
                   shownData, asyncTicks, status, rows>>
    /\ UNCHANGED <<sidebarVars, postEditVars>>

KeyDown(i, keyCode) ==
    /\ status = "ok"
    /\ i \in 1..Len(rows)
    /\ calls' = OnEnter(rows[i].item, keyCode)
    /\ lastEvent' = Event("keydown", rows[i].item, keyCode)
    /\ UNCHANGED <<data, fields, view, getItemId, selection, deferredRendering,
                   shownData, asyncTicks, status, rows>>
    /\ UNCHANGED <<sidebarVars, postEditVars>>

\* The caller's identifier of an item
CallerItemId(gid, item) == IF gid = "absent" THEN item.id ELSE GetItemId(gid, item)

\* The caller answers the callback with a new `selection` prop.
SelectionChanged ==
    /\ status = "ok"
    /\ calls # <<>>
    /\ selection' = {CallerItemId(getItemId, calls[1][k]) : k \in 1..Len(calls[1])}
    /\ RenderPass(data, shownData, selection')
    /\ calls' = <<>>
    /\ lastEvent' = Event("selection", NoItem, 0)
    /\ UNCHANGED <<data, view, getItemId, deferredRendering, shownData, asyncTicks>>
    /\ UNCHANGED <<sidebarVars, postEditVars>>

\* The caller hands a new `data` prop; the async list starts over.
DataChanged ==
    /\ status = "ok"
    /\ \E d \in DataInputs \ {data} :
          /\ data' = d
          /\ shownData' = UseAsyncListStart(d, Step)
          /\ asyncTicks' = 0
          /\ RenderPass(d, shownData', selection)
    /\ calls' = <<>>
    /\ lastEvent' = Event("data", NoItem, 0)
    /\ UNCHANGED <<view, getItemId, selection, deferredRendering>>
    /\ UNCHANGED <<sidebarVars, postEditVars>>

DefaultFields ==
    << Field("title", TRUE, <<Format("link"), Format("bold")>>),
       Field("image", TRUE, <<>>),
       Field("author", TRUE, <<Format("link")>>),
       Field("date", FALSE, <<>>) >>

DefaultView ==
    [layout |-> [primaryField |-> "title", mediaField |-> "image"],
     hiddenFields |-> {"date"}]

ViewIdle ==
    /\ data = <<>> /\ fields = <<>> /\ view = DefaultView /\ getItemId = "absent"
    /\ selection = {} /\ deferredRendering = FALSE /\ shownData = <<>>
    /\ asyncTicks = 0 /\ status = "idle" /\ rows = <<>> /\ calls = <<>>
    /\ lastEvent = Event("none", NoItem, 0)

SidebarIdle ==
    /\ isListViewOpened = FALSE /\ listViewToggleElement = FALSE
    /\ tab = "list-view" /\ hasBlocks = FALSE /\ activeElement = "body"
    /\ sbLast = [type |-> "idle", inside |-> FALSE, run |-> 0]

PostEditIdle ==
    /\ postId = <<>> /\ ids = <<>> /\ form = <<>>
    /\ record = [isNull |-> TRUE, status |-> "", dateInFuture |-> FALSE, password |-> ""]
    /\ multiEdits = <<>> /\ storeEdits = <<>> /\ peStatus = "idle"

InitViewList ==
    /\ data \in DataInputs
    /\ fields = DefaultFields
    /\ view = DefaultView
    /\ getItemId \in {"absent", "id", "key"}
    /\ selection \in {{}} \cup {{x} : x \in Identifiers}
    /\ deferredRendering \in BOOLEAN
    /\ shownData = <<>>
    /\ asyncTicks = 0
    /\ status = "pending"
    /\ rows = <<>>
    /\ calls = <<>>
    /\ lastEvent = Event("none", NoItem, 0)
    /\ SidebarIdle
    /\ PostEditIdle

ClickRow == \E i \in 1..MaxItems : Click(i)

KeyDownRow == \E i \in 1..MaxItems, k \in KeyCodes : KeyDown(i, k)

NextViewList ==
    \/ Mount
    \/ Rerender
    \/ Tick
    \/ ClickRow
    \/ KeyDownRow
    \/ SelectionChanged
    \/ DataChanged

SpecViewList == InitViewList /\ [][NextViewList]_vars

(***************************************************************************)
(* ViewList as a function of `fields` and `view`: the inputs are drawn at  *)
(* the start, and the render pass is applied to them.                      *)
(***************************************************************************)
FormatInputs == SeqsUpTo({Format(t) : t \in FormatTypes}, MaxFormats)

\* The first n field names, in order or reversed; the "title" descriptor carries
\* the given formats (or none), the others a link format.
FieldList(n, rev, has, fmts) ==
    LET names == IF rev THEN Reverse(SubSeq(FieldNames, 1, n))
                 ELSE SubSeq(FieldNames, 1, n)
    IN  [i \in 1..n |->
            IF names[i] = "title" THEN Field("title", has, fmts)
            ELSE Field(names[i], TRUE, <<Format("link")>>)]

FieldInputs ==
    {FieldList(n, rev, TRUE, fmts) :
        n \in 0..MaxFields, rev \in BOOLEAN, fmts \in FormatInputs}
    \cup {FieldList(n, rev, FALSE, <<>>) : n \in 0..MaxFields, rev \in BOOLEAN}

FieldIdInputs == {FieldNames[i] : i \in 1..MaxFields}

ViewInputs ==
    {[layout |-> [primaryField |-> p, mediaField |-> m], hiddenFields |-> h] :
        p \in FieldIdInputs \cup {Undefined},
        m \in {"image", Undefined},
        h \in {{}} \cup {{x} : x \in FieldIdInputs} \cup {FieldIdInputs}}

InitViewFields ==
    /\ data = Items(2)
    /\ fields \in FieldInputs
    /\ view \in ViewInputs
    /\ getItemId = "absent"
    /\ selection = {1}
    /\ deferredRendering = FALSE
    /\ shownData = <<>>
    /\ asyncTicks = 0
    /\ status = "pending"
    /\ rows = <<>>
    /\ calls = <<>>
    /\ lastEvent = Event("none", NoItem, 0)
    /\ SidebarIdle
    /\ PostEditIdle

NextViewFields ==
    \/ Mount
    \/ Rerender

SpecViewFields == InitViewFields /\ [][NextViewFields]_vars

\* The deferred list: as SpecViewList, from an empty selection and without
\* getItemId. The async list's batches are scheduled tasks: a pending one is
\* eventually run.
InitDeferredList ==
    /\ InitViewList
    /\ getItemId = "absent"
    /\ selection = {}

FairViewList == InitDeferredList /\ [][NextViewList]_vars /\ WF_vars(Tick)

(***************************************************************************)
(*                        Properties of ViewList                           *)
(***************************************************************************)
RowItems == [i \in 1..Len(rows) |-> rows[i].item]

ViewSteps == {"mount", "rerender", "tick", "click", "keydown"}

\* C1: a click on the row of item X invokes onSelectionChange exactly once, with
\* the one-element sequence <<X>>, whatever the selection was: nothing that was
\* selected before is part of the argument.
C1_ClickSelectsOnlyTheItem ==
    lastEvent.type = "click" =>
        /\ Len(calls) = 1
        /\ Len(calls[1]) = 1
        /\ calls[1][1] = lastEvent.item
        /\ lastEvent.item \in Range(RowItems)

C1_Witness ==
    /\ lastEvent.type = "click"
    /\ Len(calls) = 1
    /\ \E i \in 1..Len(rows) : rows[i].pressed /\ rows[i].item # lastEvent.item

\* C2: a key-down on the row of item X with Enter or Space invokes the callback
\* exactly as a click on X does; any other key code invokes it zero times.
C2_KeyDownActivates ==
    lastEvent.type = "keydown" =>
        IF lastEvent.keyCode = 13 \/ lastEvent.keyCode = 32
        THEN calls = << <<lastEvent.item>> >>
        ELSE calls = <<>>

C2_Witness ==
    /\ lastEvent.type = "keydown"
    /\ lastEvent.keyCode = SPACE
    /\ calls = << <<lastEvent.item>> >>
    /\ selection # {}

\* C3: with deferredRendering the rendered list is always a prefix of data, of
\* length min(3 * (k + 1), N) after k ticks, never shrinking while data stays;
\* with ticks scheduled fairly and data eventually left unchanged, it eventually
\* is the whole of data and stays so.
C3_PrefixOfBatches ==
    (status = "ok" /\ deferredRendering) =>
        /\ Len(rows) <= Len(data)
        /\ \A i \in 1..Len(rows) : rows[i].item = data[i]
        /\ Len(rows) = Min(3 * (asyncTicks + 1), Len(data))

\* C3: the prefix invariant above, the rendered length never shrinking and the
\* full list staying while data stays, and the full list eventually rendered
\* for good once data is left unchanged.
C3_DeferredReveal ==
    /\ []C3_PrefixOfBatches
    /\ [][(deferredRendering /\ status = "ok" /\ data' = data)
            => Len(rows') >= Len(rows)]_vars
    /\ [][(deferredRendering /\ status = "ok" /\ RowItems = data /\ data' = data)
            => RowItems' = data']_vars
    /\ <>[](lastEvent.type # "data")
          => <>[]((deferredRendering /\ status = "ok") => RowItems = data)

C3_Witness ==
    /\ deferredRendering
    /\ status = "ok"
    /\ Len(data) > 6
    /\ asyncTicks = 2
    /\ RowItems = data

\* C4: the visible fields of every row are the fields that are not hidden and
\* are neither the primary nor the media field, in the order of `fields`.
C4_VisibleFields ==
    status = "ok" =>
        \A r \in 1..Len(rows) :
            LET vis == rows[r].visible
                expected == {fields[i].id : i \in 1..Len(fields)}
                               \ (view.hiddenFields
                                  \cup {view.layout.primaryField, view.layout.mediaField})
            IN  /\ Range(vis) = expected
                /\ \A i, j \in 1..Len(vis) :
                       i < j => Find(fields, vis[i]) < Find(fields, vis[j])

C4_Witness ==
    /\ status = "ok"
    /\ Len(rows) > 0
    /\ rows[1].visible = <<"date", "author">>
    /\ rows[1].media = "image"
    /\ view.hiddenFields = {}

\* C5: with no field matching view.layout.primaryField the render pass
\* completes: every row is rendered, with an empty primary label.
C5_MissingPrimaryRendersSoftly ==
    (status # "pending" /\ Find(fields, view.layout.primaryField) = 0) =>
        /\ status = "ok"
        /\ RowItems = data
        /\ \A r \in 1..Len(rows) : rows[r].primary = ""

\* C6: whenever the primary field matches a field (its formats given or not), a
\* render pass completes and leaves that field's formats without link entries,
\* the other entries as they were and in their order; a repeated pass changes
\* nothing.
C6_PrimaryFormatsNormalized ==
    [][(lastEvent'.type \in {"mount", "rerender"}
          /\ Find(fields, view.layout.primaryField) # 0)
        => LET p == Find(fields, view.layout.primaryField)
           IN  /\ status' = "ok"
               /\ \A k \in 1..Len(fields'[p].formats) :
                      fields'[p].formats[k].type # "link"
               /\ fields'[p].formats = SelectSeq(fields[p].formats, NotLink)
               /\ lastEvent'.type = "rerender" => fields' = fields]_vars

\* C7 as stated: a render pass or an interaction leaves every prop as it was.
C7_NoSideEffects ==
    [][lastEvent'.type \in ViewSteps =>
          /\ data' = data
          /\ selection' = selection
          /\ fields' = fields
          /\ view' = view
          /\ getItemId' = getItemId
          /\ deferredRendering' = deferredRendering]_vars

\* C7, amended: a render pass or an interaction leaves data, selection, view,
\* getItemId and deferredRendering as they were, and `fields` too except that the
\* formats of the matched primary field lose their link entries; selection
\* changes only by the caller's answer to a callback invocation.
C7_FrameExceptPrimaryFormats ==
    [][/\ lastEvent'.type \in ViewSteps =>
            /\ data' = data
            /\ selection' = selection
            /\ view' = view
            /\ getItemId' = getItemId
            /\ deferredRendering' = deferredRendering
            /\ Len(fields') = Len(fields)
            /\ \A i \in 1..Len(fields) :
                   IF i = Find(fields, view.layout.primaryField)
                      /\ fields[i].hasFormats
                   THEN fields'[i] =
                          [fields[i] EXCEPT !.formats = SelectSeq(@, NotLink)]
                   ELSE fields'[i] = fields[i]
       /\ selection' # selection => (lastEvent'.type = "selection" /\ calls # <<>>)
      ]_vars

C7_Witness ==
    /\ lastEvent.type = "mount"
    /\ status = "ok"
    /\ fields # DefaultFields
    /\ Len(rows) > 0

\* C8: a row is pressed, and carries the selected class, exactly when the
\* item's identifier (the one getItemId returns, when it is supplied) is in
\* selection.
C8_PressedIffSelected ==
    status = "ok" =>
        \A r \in 1..Len(rows) :
            /\ rows[r].pressed = (CallerItemId(getItemId, rows[r].item) \in selection)
            /\ rows[r].selected = rows[r].pressed

(***************************************************************************)
(*                           ListViewSidebar                               *)
(***************************************************************************)
\* Elements that can hold focus. "close", "tab", "listview" and "listviewLater"
\* are inside the sidebar; "tab" is the first tabbable element of the tab list,
\* "listview" the first tabbable element of the list view.
SidebarElements == {"close", "tab", "listview", "listviewLater"}
OutsideElements == {"editor", "body", "toggle"}

\* sidebarRef.current.contains( element )
SidebarContains(element) == element \in SidebarElements

ListViewRendered == tab = "list-view" /\ hasBlocks

ElementExists(element) ==
    CASE element \in {"close", "tab"} -> isListViewOpened
      [] element \in {"listview", "listviewLater"} -> isListViewOpened /\ ListViewRendered
      [] element = "toggle" -> listViewToggleElement
      [] OTHER -> TRUE

SbEvent(type, inside, run) == [type |-> type, inside |-> inside, run |-> run]

\* closeListView: setIsListViewOpened( false ); listViewToggleElement?.focus().
\* Without a toggle element, focus falls to the body once the sidebar is gone.
FocusAfterClose ==
    IF listViewToggleElement THEN "toggle"
    ELSE IF SidebarContains(activeElement) THEN "body" ELSE activeElement

CloseListView ==
    /\ isListViewOpened' = FALSE
    /\ activeElement' = FocusAfterClose

SidebarFocusTargetTabsOnly(currentTab) == "tab"

\* handleSidebarFocus( currentTab ): the element that receives focus
SidebarFocusTarget(currentTab) ==
    IF currentTab = "list-view"
    THEN IF hasBlocks /\ SidebarContains("listview") THEN "listview" ELSE "tab"
    ELSE "tab"

HandleToggleListViewShortcut ==
    /\ isListViewOpened
    /\ IF SidebarContains(activeElement)
       THEN CloseListView
       ELSE /\ activeElement' = SidebarFocusTarget(tab)
            /\ isListViewOpened' = isListViewOpened
    /\ sbLast' = SbEvent("shortcut", SidebarContains(activeElement),
                         IF ~SidebarContains(activeElement) THEN 1
                         ELSE IF sbLast.run = 1 THEN 2 ELSE 0)
    /\ UNCHANGED <<listViewToggleElement, tab, hasBlocks>>
    /\ UNCHANGED <<viewVars, postEditVars>>

\* closeOnEscape: a key-down that reaches the sidebar's <div>
CloseOnEscape(keyCode, defaultPrevented) ==
    /\ isListViewOpened
    /\ SidebarContains(activeElement)
    /\ IF keyCode = ESCAPE /\ ~defaultPrevented
       THEN CloseListView
       ELSE UNCHANGED <<isListViewOpened, activeElement>>
    /\ sbLast' = SbEvent("keydown", TRUE, 0)
    /\ UNCHANGED <<listViewToggleElement, tab, hasBlocks>>
    /\ UNCHANGED <<viewVars, postEditVars>>

SidebarKeyDown == \E k \in KeyCodes, prevented \in BOOLEAN : CloseOnEscape(k, prevented)

\* The close button: onClick={ closeListView }
CloseButtonClick ==
    /\ isListViewOpened
    /\ CloseListView
    /\ sbLast' = SbEvent("close", SidebarContains(activeElement), 0)
    /\ UNCHANGED <<listViewToggleElement, tab, hasBlocks>>
    /\ UNCHANGED <<viewVars, postEditVars>>

\* Tabs onSelect={ ( tabName ) => setTab( tabName ) }; the selected tab has focus
SelectTab(tabName) ==
    /\ isListViewOpened
    /\ tab' = tabName
    /\ activeElement' = "tab"
    /\ sbLast' = SbEvent("select", SidebarContains(activeElement), 0)
    /\ UNCHANGED <<isListViewOpened, listViewToggleElement, hasBlocks>>
    /\ UNCHANGED <<viewVars, postEditVars>>

SelectSomeTab == \E t \in {"list-view", "outline"} : SelectTab(t)

\* The sidebar is opened (elsewhere) and mounts: the tab state starts at
\* 'list-view', and useFocusOnMount( 'firstElement' ) focuses the first tabbable
\* element of the list view container, if there is one.
OpenListView ==
    /\ ~isListViewOpened
    /\ isListViewOpened' = TRUE
    /\ tab' = "list-view"
    /\ activeElement' = IF hasBlocks THEN "listview" ELSE activeElement
    /\ sbLast' = SbEvent("open", FALSE, 0)
    /\ UNCHANGED <<listViewToggleElement, hasBlocks>>
    /\ UNCHANGED <<viewVars, postEditVars>>

\* The user moves focus to another element of the page.
FocusMoves ==
    /\ \E e \in (SidebarElements \cup OutsideElements) \ {activeElement} :
          /\ ElementExists(e)
          /\ activeElement' = e
    /\ sbLast' = SbEvent("focus", SidebarContains(activeElement), 0)
    /\ UNCHANGED <<isListViewOpened, listViewToggleElement, tab, hasBlocks>>
    /\ UNCHANGED <<viewVars, postEditVars>>

\* Blocks are added to, or the last one removed from, the post: the list view
\* gains or loses its tabbable elements.
BlocksChange ==
    /\ hasBlocks' = ~hasBlocks
    /\ activeElement' = IF activeElement \in {"listview", "listviewLater"}
                        THEN "body" ELSE activeElement
    /\ sbLast' = SbEvent("blocks", SidebarContains(activeElement), 0)
    /\ UNCHANGED <<isListViewOpened, listViewToggleElement, tab>>
    /\ UNCHANGED <<viewVars, postEditVars>>

InitSidebar ==
    /\ isListViewOpened = FALSE
    /\ listViewToggleElement \in BOOLEAN
    /\ tab = "list-view"
    /\ hasBlocks \in BOOLEAN
    /\ activeElement \in {"editor", "body"}
    /\ sbLast = SbEvent("none", FALSE, 0)
    /\ ViewIdle
    /\ PostEditIdle

NextSidebar ==
    \/ OpenListView
    \/ HandleToggleListViewShortcut
    \/ SidebarKeyDown
    \/ CloseButtonClick
    \/ SelectSomeTab
    \/ FocusMoves
    \/ BlocksChange

SpecSidebar == InitSidebar /\ [][NextSidebar]_vars

IdChars == {"7", "8", "9"}

RECURSIVE Join(_)
\* ids joined by commas, as the caller builds `postId`
Join(list) ==
    IF Len(list) = 0 THEN <<>>
    ELSE IF Len(list) = 1 THEN list[1]
    ELSE list[1] \o <<",">> \o Join(Tail(list))

PostIdInputs ==
    {<<>>} \cup
    {Join(l) : l \in {q \in SeqsUpTo({<<c>> : c \in IdChars}, MaxPostIds) :
                          /\ Len(q) > 0
                          /\ \A i, j \in 1..Len(q) : i # j => q[i] # q[j]}}

RECURSIVE Split(_, _)
\* str.split( sep ) for a one-character separator
Split(str, sep) ==
    IF \E i \in 1..Len(str) : str[i] = sep
    THEN LET i == CHOOSE k \in 1..Len(str) :
                      str[k] = sep /\ \A j \in 1..(k - 1) : str[j] # sep
         IN  <<SubSeq(str, 1, i - 1)>> \o Split(SubSeq(str, i + 1, Len(str)), sep)
    ELSE <<str>>

\* An entry of form.fields: a field id given as a string, or an object with an id
StringEntry(id) == [isString |-> TRUE, id |-> id]
ObjectEntry(id) == [isString |-> FALSE, id |-> id]

fieldsWithBulkEditSupport == <<"title", "status", "date", "author", "comment_status">>

FormEntries ==
    << ObjectEntry("featured_media"),
       StringEntry("title"),
       ObjectEntry("status"),
       StringEntry("author"),
       StringEntry("date"),
       StringEntry("slug"),
       StringEntry("parent"),
       StringEntry("comment_status"),
       ObjectEntry("template") >>

\* array.includes( entry ) on an array of strings: an object equals none of them
Includes(array, entry) ==
    entry.isString /\ \E i \in 1..Len(array) : array[i] = entry.id

\* The filter of form.fields
FormFields(idList) ==
    LET Keep(field) ==
            Len(idList) = 1 \/ Includes(fieldsWithBulkEditSupport, field)
    IN  SelectSeq(FormEntries, Keep)

NullRecord == [isNull |-> TRUE, status |-> "", dateInFuture |-> FALSE, password |-> ""]

RecordInputs ==
    [isNull : {FALSE}, status : {"draft", "future"}, dateInFuture : BOOLEAN,
     password : {"", "secret"}]

\* {} and the edits objects the form hands to onChange
NoEdits == <<>>
EditInputs ==
    {[status |-> "draft"], [status |-> "private"], [status |-> "future"],
     [title |-> "t"]}

\* { ...a, ...b }
Merge(a, b) ==
    [k \in (DOMAIN a) \cup (DOMAIN b) |-> IF k \in DOMAIN b THEN b[k] ELSE a[k]]

HasStatus(edits) == "status" \in DOMAIN edits

\* The first statement of the loop body: the date is reset when a scheduled
\* post leaves the 'future' status.
WithDateReset(edits) ==
    IF /\ HasStatus(edits)
       /\ edits.status # "future"
       /\ ~record.isNull
       /\ record.status = "future"
       /\ record.dateInFuture
    THEN Merge(edits, [date |-> "null"])
    ELSE edits

\* The second statement reads record.password: a TypeError when record is null.
PasswordReadThrows(edits) ==
    HasStatus(edits) /\ edits.status = "private" /\ record.isNull

WithPasswordCleared(edits) ==
    IF HasStatus(edits) /\ edits.status = "private" /\ record.password # ""
    THEN Merge(edits, [password |-> ""])
    ELSE edits

\* The edits object after the loop body ran once more
EditsAfterIteration(edits) == WithPasswordCleared(WithDateReset(edits))

\* getEditedEntityRecord after editEntityRecord( ..., edits )
EditedRecord(rec, edits) ==
    [isNull |-> FALSE,
     status |-> IF "status" \in DOMAIN edits THEN edits.status ELSE rec.status,
     dateInFuture |-> IF "date" \in DOMAIN edits THEN FALSE ELSE rec.dateInFuture,
     password |-> IF "password" \in DOMAIN edits THEN edits.password ELSE rec.password]

\* PostEdit / PostEditForm: one render with the current postId
RenderPostEdit ==
    /\ peStatus = "pending"
    /\ IF postId = <<>>
       THEN /\ peStatus' = "empty"
            /\ ids' = <<>>
            /\ form' = <<>>
            /\ record' = NullRecord
       ELSE /\ peStatus' = "ok"
            /\ ids' = Split(postId, ",")
            /\ form' = FormFields(ids')
            /\ IF Len(ids') = 1 THEN record' \in RecordInputs ELSE record' = NullRecord
    /\ multiEdits' = NoEdits
    /\ storeEdits' = <<>>
    /\ UNCHANGED postId
    /\ UNCHANGED <<viewVars, sidebarVars>>

\* onChange( edits )
OnChange(edits) ==
    /\ peStatus \in {"ok", "threw"}
    /\ IF PasswordReadThrows(edits)
       THEN /\ peStatus' = "threw"
            /\ storeEdits' = <<>>
            /\ UNCHANGED <<multiEdits, record>>
       ELSE LET final == EditsAfterIteration(edits)
            IN  /\ peStatus' = "ok"
                /\ storeEdits' = [i \in 1..Len(ids) |-> <<ids[i], final>>]
                /\ multiEdits' = IF Len(ids) > 1 THEN Merge(multiEdits, final)
                                 ELSE multiEdits
                /\ record' = IF Len(ids) = 1 THEN EditedRecord(record, final)
                             ELSE record
    /\ UNCHANGED <<postId, ids, form>>
    /\ UNCHANGED <<viewVars, sidebarVars>>

FormChange == \E edits \in EditInputs : OnChange(edits)

\* The caller hands another postId
Navigate ==
    /\ peStatus # "pending"
    /\ \E p \in PostIdInputs \ {postId} : postId' = p
    /\ peStatus' = "pending"
    /\ UNCHANGED <<ids, form, record, multiEdits, storeEdits>>
    /\ UNCHANGED <<viewVars, sidebarVars>>

InitPostEdit ==
    /\ postId \in PostIdInputs
    /\ ids = <<>>
    /\ form = <<>>
    /\ record = NullRecord
    /\ multiEdits = NoEdits
    /\ storeEdits = <<>>
    /\ peStatus = "pending"
    /\ ViewIdle
    /\ SidebarIdle

NextPostEdit ==
    \/ RenderPostEdit
    \/ FormChange
    \/ Navigate

SpecPostEdit == InitPostEdit /\ [][NextPostEdit]_vars

FormIds == [i \in 1..Len(form) |-> form[i].id]

\* C10: in a bulk edit the form holds the entries whose field id is in
\* fieldsWithBulkEditSupport, in form order; with one post it holds all nine.
C10_BulkFormFields ==
    peStatus \in {"ok", "threw"} =>
        IF Len(ids) > 1
        THEN FormIds = <<"title", "status", "author", "date", "comment_status">>
        ELSE FormIds = <<"featured_media", "title", "status", "author", "date",
                         "slug", "parent", "comment_status", "template">>

====
